---------------------------- MODULE Spec2Model ----------------------------
(***************************************************************************)
(* A model of the jstris-replay crate: the binary event codec (Event,      *)
(* EventList, TwelveBitMillisecondTimestamp), the GameSeed parser and its  *)
(* views, the JstrisBag piece randomizer, the Mash / AleaPrng generator     *)
(* and the replay version number.                                          *)
(*                                                                         *)
(* The components do not share state, so each has its own specification    *)
(* over its own variables (the variables of the other components keep      *)
(* their initial values):                                                  *)
(*   SpecWord       Event <-> u16                     (src/src/lib.rs)      *)
(*   SpecBuffer     Vec<u8> -> EventList               (src/src/lib.rs)      *)
(*   SpecCodec      EventList mutation, encode, decode, iter               *)
(*   SpecTimestamp  TwelveBitMillisecondTimestamp constructors             *)
(*   SpecSeed       GameSeed parse and views          (src/src/lib.rs)      *)
(*   SpecBag        JstrisBag::new / get              (src/src/rng.rs)      *)
(*   SpecPrng       AleaPrng::new / random            (src/src/rng.rs)      *)
(*   SpecVersion    ExpectedJstrisReplayVersion serde (src/src/lib.rs)      *)
(***************************************************************************)
EXTENDS Integers, Sequences, FiniteSets, TLC

VARIABLES
    raw,        \* SpecWord: the u16 handed to Event::try_from (-1: none yet)
    ev,         \* SpecWord: the Result of Event::try_from(raw)
    back,       \* SpecWord: u16::from(event) of the decoded event (-1: none yet)
    bytes,      \* the Vec<u8> the caller holds (decode input / encode output)
    inner,      \* EventList.inner of the list the caller holds
    result,     \* the Result of the last EventList::try_from(bytes)
    encodedFrom,\* <<list>> when bytes is the output of list.encode(), else <<>>
    iter,       \* the iterator returned by EventList::iter (closure state)
    yielded,    \* the (input, elapsed) pairs the iterator has yielded
    dur,        \* SpecTimestamp: the source value of the last conversion
    ts,         \* SpecTimestamp: the Result of the last conversion
    str,        \* SpecSeed: the &str the caller holds
    seed,       \* SpecSeed: the Result of GameSeed::try_from(str)
    view,       \* SpecSeed: the last view taken of the parsed seed
    bag,        \* JstrisBag.bag (an ArrayVec; get() pops its last element)
    built,      \* whether JstrisBag::new has run
    draws,      \* the number of AleaPrng::random calls made so far
    calls,      \* the number of get() calls made so far
    got,        \* the piece the last get() returned ("-": none yet)
    gotPrev,    \* the piece the get() before the last returned ("-": none yet)
    block,      \* the set of pieces returned in the current block of 7 calls
    removal,    \* the array of fresh_bag of the current bag, in removal order
                \* ("-" in the place of a piece get() has returned)
    gotDraw,    \* the draw of fresh_bag that removed the piece last returned
    swapped,    \* whether JstrisBag::new changed the bag now held
    wire,       \* SpecVersion: the type parameters and the JSON number decoded
    version,    \* SpecVersion: the Result of the version's deserialize
    rewire,     \* SpecVersion: the number its serialize writes (major 0 - 1: none)
    seeds,      \* SpecPrng: the seed list, each seed a sequence of UTF-16 code units
    checks,     \* SpecPrng: whether the build panics on integer overflow
    gens,       \* SpecPrng: two AleaPrng built from the same seed list
    outs        \* SpecPrng: the values each of them has returned so far

codecVars == <<bytes, inner, result, encodedFrom, iter, yielded>>
wordVars == <<raw, ev, back>>
tsVars == <<dur, ts>>
seedVars == <<str, seed, view>>
bagVars == <<bag, built, draws, calls, got, gotPrev, block, removal, gotDraw, swapped>>
versionVars == <<wire, version, rewire>>
prngVars == <<seeds, checks, gens, outs>>
notCodec == <<wordVars, tsVars, seedVars, bagVars, versionVars, prngVars>>
notWord == <<codecVars, tsVars, seedVars, bagVars, versionVars, prngVars>>
notTimestamp == <<wordVars, codecVars, seedVars, bagVars, versionVars, prngVars>>
notSeed == <<wordVars, codecVars, tsVars, bagVars, versionVars, prngVars>>
notBag == <<wordVars, codecVars, tsVars, seedVars, versionVars, prngVars>>
notVersion == <<wordVars, codecVars, tsVars, seedVars, bagVars, prngVars>>
notPrng == <<wordVars, codecVars, tsVars, seedVars, bagVars, versionVars>>
vars == <<raw, ev, back, bytes, inner, result, encodedFrom, iter, yielded,
          dur, ts, str, seed, view, bag, built, draws, calls, got, gotPrev,
          block, removal, gotDraw, swapped, wire, version, rewire, seeds, checks, gens, outs>>

----------------------------------------------------------------------------
(* Machine arithmetic on u16 / u8 values.                                  *)

U16Max == 65535

U8Max == 255

RECURSIVE Pow2(_)
Pow2(n) == IF n = 0 THEN 1 ELSE 2 * Pow2(n - 1)

\* a >> n on an unsigned value
Shr(a, n) == a \div Pow2(n)

\* a << n on a u16: the bits shifted out are lost
Shl16(a, n) == (a * Pow2(n)) % (U16Max + 1)

RECURSIVE BitAnd(_, _)
BitAnd(a, b) ==
    IF a = 0 \/ b = 0 THEN 0
    ELSE (IF a % 2 = 1 /\ b % 2 = 1 THEN 1 ELSE 0) + 2 * BitAnd(a \div 2, b \div 2)

RECURSIVE BitOr(_, _)
BitOr(a, b) ==
    IF a = 0 THEN b
    ELSE IF b = 0 THEN a
    ELSE (IF a % 2 = 1 \/ b % 2 = 1 THEN 1 ELSE 0) + 2 * BitOr(a \div 2, b \div 2)

----------------------------------------------------------------------------
(* TwelveBitMillisecondTimestamp                                           *)

\* the largest value the u16 constructor accepts (0x0F_FF)
TimestampMax == 4095

\* impl TryFrom<u16> for TwelveBitMillisecondTimestamp
TimestampTryFromU16(value) ==
    IF value >= 0 /\ value <= TimestampMax
    THEN [tag |-> "Ok", val |-> value]
    ELSE [tag |-> "TooBig", val |-> value]

\* `val as u16` for an i64: the low 16 bits
AsU16(val) == val % (U16Max + 1)

\* impl TryFrom<Duration> for TwelveBitMillisecondTimestamp; the duration is
\* given by its num_milliseconds()
TimestampTryFromDuration(ms) ==
    IF ms > 0
    THEN [tag |-> "Ok", val |-> AsU16(ms)]
    ELSE [tag |-> "Invalid", val |-> ms]

----------------------------------------------------------------------------
(* Input and Event                                                         *)

\* enum Input, in discriminant order 0..15
InputVariants ==
    << "MoveLeft", "MoveRight", "DasLeft", "DasRight", "RotateLeft",
       "RotateRight", "Rotate180", "HardDrop", "SoftDropBeginEnd",
       "GravityStep", "HoldBlock", "GarbageAdd", "SGarbageAdd", "RedBarSet",
       "ArrMove", "Aux" >>

\* Input::from_raw: asserts the high nibble is clear, then transmutes the
\* byte to the variant with that discriminant
InputFromRaw(r) ==
    IF BitAnd(r, 240) = 0 /\ r + 1 \in DOMAIN InputVariants
    THEN [tag |-> "Ok", input |-> InputVariants[r + 1]]
    ELSE [tag |-> "Panic"]

\* `input as u16`: the discriminant of the variant
InputAsU16(input) == (CHOOSE i \in DOMAIN InputVariants : InputVariants[i] = input) - 1

\* Faulty variant of EventDelay: the timestamp is taken from the low 12 bits
EventDelay_LowBits(value) == BitAnd(value, 4095)

\* the timestamp field of a packed event: value >> 4
EventDelay(value) == Shr(value, 4)

\* the input field of a packed event: (value & 0x0F) as u8
EventInputNibble(value) == BitAnd(value, 15) % (U8Max + 1)

\* impl TryFrom<u16> for Event (the unwrap and the assert may panic)
EventTryFrom(value) ==
    LET delay == EventDelay(value)
        t == TimestampTryFromU16(delay)
        i == InputFromRaw(EventInputNibble(value))
    IN  IF t.tag = "Ok" /\ i.tag = "Ok"
        THEN [tag |-> "Ok", event |-> [timestamp |-> t.val, input |-> i.input]]
        ELSE [tag |-> "Panic"]

\* impl From<Event> for u16
EventIntoU16(e) == BitOr(Shl16(e.timestamp, 4), InputAsU16(e.input))

----------------------------------------------------------------------------
(* EventList: encode, decode, iter                                         *)

\* u16::to_be_bytes
ToBeBytes(w) == << w \div (U8Max + 1), w % (U8Max + 1) >>

\* u16::from_be_bytes
FromBeBytes(hi, lo) == hi * (U8Max + 1) + lo

RECURSIVE FlatBytes(_)
\* self.inner.iter().flat_map(|&e| Into::<u16>::into(e).to_be_bytes())
FlatBytes(list) ==
    IF list = <<>> THEN <<>>
    ELSE ToBeBytes(EventIntoU16(Head(list))) \o FlatBytes(Tail(list))

\* Faulty variant of EncodePad: the list is never padded
EncodePad_None(n) == <<>>

\* the padding encode appends to a list of n events
EncodePad(n) == IF n % 2 = 1 THEN <<0, 0>> ELSE <<>>

\* EventList::encode
Encode(list) == FlatBytes(list) \o EncodePad(Len(list))

\* Faulty variant of Aligned: only an even length is required
Aligned_Even(n) == n % 2 = 0

\* the length check of EventList::try_from
Aligned(n) == n % 4 = 0

\* bytes.chunks(2): the i-th chunk (the last one may hold one byte)
Chunk(b, i) == SubSeq(b, 2 * i - 1, IF 2 * i <= Len(b) THEN 2 * i ELSE Len(b))

NumChunks(b) == (Len(b) + 1) \div 2

\* impl TryFrom<Vec<u8>> for EventList
EventListTryFrom(b) ==
    IF ~Aligned(Len(b))
    THEN [tag |-> "NotAligned", num_bytes |-> Len(b), list |-> <<>>]
    ELSE LET chunkOk(i) == Len(Chunk(b, i)) = 2
             word(i) == FromBeBytes(Chunk(b, i)[1], Chunk(b, i)[2])
         IN  IF \A i \in 1..NumChunks(b) : chunkOk(i) /\ EventTryFrom(word(i)).tag = "Ok"
             THEN [tag |-> "Ok", num_bytes |-> Len(b),
                   list |-> [i \in 1..NumChunks(b) |-> EventTryFrom(word(i)).event]]
             ELSE [tag |-> "Panic", num_bytes |-> Len(b), list |-> <<>>]

\* the epoch length the iterator adds on a wraparound (0x1000 ms)
Epoch == 4096

\* Faulty variant of Wrapped: an equal raw value counts as a wraparound
Wrapped_OrEqual(millis, prev) == millis <= prev

\* Faulty variant of Wrapped: the base never advances
Wrapped_Never(millis, prev) == FALSE

\* the wraparound test of the EventList::iter closure
Wrapped(millis, prev) == millis < prev

\* the closure state of a new EventList::iter
IterInit == [live |-> TRUE, pos |-> 0, base |-> 0, prev |-> 0]

NoIter == [live |-> FALSE, pos |-> 0, base |-> 0, prev |-> 0]

NoResult == [tag |-> "None", num_bytes |-> 0, list |-> <<>>]

----------------------------------------------------------------------------
(* Bounds of the codec specifications                                      *)

\* the longest list the caller builds by pushing events
MaxEvents == 4

\* the longest byte buffer the caller builds
MaxBytes == 8

\* the packed events the caller pushes: (4000, MoveRight), (4090, HardDrop),
\* (50, MoveLeft), (4080, Aux), (0, MoveLeft), (4095, Aux)
PushWords == {64001, 65447, 800, 65295, 0, 65535}

\* the byte values the caller puts in a buffer
PushBytes == {0, 7, 250}

----------------------------------------------------------------------------
(* Actions of the codec                                                    *)

\* the caller appends a byte to the buffer it will decode
PushByte(b) ==
    /\ Len(bytes) < MaxBytes
    /\ result.tag = "None"
    /\ bytes' = Append(bytes, b)
    /\ encodedFrom' = <<>>
    /\ UNCHANGED <<inner, result, iter, yielded>>
    /\ UNCHANGED notCodec

\* EventList::try_from(bytes)
Decode ==
    /\ result.tag = "None"
    /\ result' = EventListTryFrom(bytes)
    /\ UNCHANGED <<bytes, inner, encodedFrom, iter, yielded>>
    /\ UNCHANGED notCodec

\* the caller takes the decoded list out of an Ok result and drops the buffer
\* (no iterator borrows the list it replaces)
Unwrap ==
    /\ ~iter.live
    /\ result.tag = "Ok"
    /\ inner' = result.list
    /\ result' = NoResult
    /\ bytes' = <<>>
    /\ encodedFrom' = <<>>
    /\ UNCHANGED <<iter, yielded>>
    /\ UNCHANGED notCodec

\* DerefMut: the caller pushes a decoded event on the list
Push(w) ==
    /\ ~iter.live
    /\ bytes = <<>> /\ result.tag = "None"
    /\ Len(inner) < MaxEvents
    /\ EventTryFrom(w).tag = "Ok"
    /\ inner' = Append(inner, EventTryFrom(w).event)
    /\ UNCHANGED <<bytes, result, encodedFrom, iter, yielded>>
    /\ UNCHANGED notCodec

\* DerefMut: the caller pops the last event of the list
Pop ==
    /\ ~iter.live
    /\ bytes = <<>> /\ result.tag = "None"
    /\ inner # <<>>
    /\ inner' = SubSeq(inner, 1, Len(inner) - 1)
    /\ UNCHANGED <<bytes, result, encodedFrom, iter, yielded>>
    /\ UNCHANGED notCodec

\* bytes = list.encode()
EncodeList ==
    /\ ~iter.live
    /\ bytes = <<>> /\ result.tag = "None"
    /\ encodedFrom = <<>>
    /\ bytes' = Encode(inner)
    /\ encodedFrom' = <<inner>>
    /\ UNCHANGED <<inner, result, iter, yielded>>
    /\ UNCHANGED notCodec

\* list.iter(): a new iterator borrowing the list
IterNew ==
    /\ ~iter.live
    /\ bytes = <<>> /\ result.tag = "None" /\ encodedFrom = <<>>
    /\ iter' = IterInit
    /\ yielded' = <<>>
    /\ UNCHANGED <<bytes, inner, result, encodedFrom>>
    /\ UNCHANGED notCodec

\* Iterator::next on the iterator: one run of the closure
IterNext ==
    /\ iter.live
    /\ iter.pos < Len(inner)
    /\ LET e == inner[iter.pos + 1]
           base == IF Wrapped(e.timestamp, iter.prev)
                   THEN iter.base + Epoch ELSE iter.base
       IN  /\ iter' = [live |-> TRUE, pos |-> iter.pos + 1,
                       base |-> base, prev |-> e.timestamp]
           /\ yielded' = Append(yielded, <<e.input, base + e.timestamp>>)
    /\ UNCHANGED <<bytes, inner, result, encodedFrom>>
    /\ UNCHANGED notCodec

\* the iterator is dropped, ending the borrow
IterDrop ==
    /\ iter.live
    /\ iter' = NoIter
    /\ yielded' = <<>>
    /\ UNCHANGED <<bytes, inner, result, encodedFrom>>
    /\ UNCHANGED notCodec

----------------------------------------------------------------------------
(* Actions on single events and timestamps                                 *)

NoEvent == [tag |-> "None"]

\* Event::try_from(raw)
WordDecode ==
    /\ ev.tag = "None"
    /\ ev' = EventTryFrom(raw)
    /\ UNCHANGED <<raw, back>>
    /\ UNCHANGED notWord

\* u16::from(event) on the decoded event
WordEncode ==
    /\ ev.tag = "Ok"
    /\ back = -1
    /\ back' = EventIntoU16(ev.event)
    /\ UNCHANGED <<raw, ev>>
    /\ UNCHANGED notWord

NoTimestamp == [tag |-> "None", val |-> 0]

\* TwelveBitMillisecondTimestamp::try_from(value: u16)
ConvertU16 ==
    /\ dur.kind = "u16"
    /\ ts.tag = "None"
    /\ ts' = TimestampTryFromU16(dur.val)
    /\ UNCHANGED dur
    /\ UNCHANGED notTimestamp

\* TwelveBitMillisecondTimestamp::try_from(duration: Duration)
ConvertDuration ==
    /\ dur.kind = "duration"
    /\ ts.tag = "None"
    /\ ts' = TimestampTryFromDuration(dur.val)
    /\ UNCHANGED dur
    /\ UNCHANGED notTimestamp

\* the durations converted, in milliseconds: -NegDurationMs .. MaxDurationMs
NegDurationMs == 3

MaxDurationMs == 70000

----------------------------------------------------------------------------
(* GameSeed                                                                *)

\* the capacity of GameSeed.bytes
SeedCap == 6

\* Faulty variant of SeedByteOk: upper case letters are accepted as well
SeedByteOk_AnyCase(b) ==
    (b >= 97 /\ b <= 122) \/ (b >= 48 /\ b <= 57) \/ (b >= 65 /\ b <= 90)

\* b'a'..=b'z' | b'0'..=b'9'
SeedByteOk(b) == (b >= 97 /\ b <= 122) \/ (b >= 48 /\ b <= 57)

\* the length check of GameSeed::try_from
SeedLengthOk(n) == ~(n > SeedCap \/ n = 0)

RECURSIVE SeedLoop(_, _, _)
\* the loop of GameSeed::try_from over out.iter_mut().zip(str.as_bytes()),
\* from position i on
SeedLoop(s, i, out) ==
    IF i > Len(s) \/ i > Len(out)
    THEN [tag |-> "Ok", bytes |-> out, len |-> Len(s) % (U8Max + 1), c |-> 0]
    ELSE IF SeedByteOk(s[i])
         THEN SeedLoop(s, i + 1, [out EXCEPT ![i] = s[i]])
         ELSE [tag |-> "InvalidChar", bytes |-> <<>>, len |-> 0, c |-> s[i]]

\* impl TryFrom<&str> for GameSeed
GameSeedTryFrom(s) ==
    IF ~SeedLengthOk(Len(s))
    THEN [tag |-> "WrongLength", bytes |-> <<>>, len |-> 0, c |-> 0]
    ELSE SeedLoop(s, 1, [i \in 1..SeedCap |-> 0])

\* Faulty variant of SeedAsRefBytes: the whole backing array is returned
SeedAsRefBytes_Whole(g) == g.bytes

\* impl AsRef<[u8]> for GameSeed
SeedAsRefBytes(g) == SubSeq(g.bytes, 1, g.len)

\* impl AsRef<str> for GameSeed
SeedAsRefStr(g) == g.bytes

\* impl Display for GameSeed (34 is the double quote)
SeedDisplay(g) == <<34>> \o [i \in 1..Len(g.bytes) |-> g.bytes[i]] \o <<34>>

\* impl Serialize for GameSeed: the str handed to serialize_str
SeedSerialize(g) == SeedAsRefBytes(g)

\* impl Deserialize for GameSeed, on the deserialized String
SeedDeserialize(s) == GameSeedTryFrom(s)

\* the seed strings JstrisBag::new hands to AleaPrng::new
PrngSeeds(g) == << SeedAsRefStr(g) >>

NoSeed == [tag |-> "None", bytes |-> <<>>, len |-> 0, c |-> 0]

NoView == [op |-> "none", val |-> <<>>, parsed |-> NoSeed]

\* the longest string the caller builds
MaxStrLen == 7

\* the bytes the caller puts in a string: 'a', '9', 'A', '{'
StrBytes == {97, 57, 65, 123}

\* the caller appends a character to the string it will parse
PushChar(c) ==
    /\ Len(str) < MaxStrLen
    /\ seed.tag = "None"
    /\ str' = Append(str, c)
    /\ UNCHANGED <<seed, view>>
    /\ UNCHANGED notSeed

\* GameSeed::try_from(str)
Parse ==
    /\ seed.tag = "None"
    /\ seed' = GameSeedTryFrom(str)
    /\ UNCHANGED <<str, view>>
    /\ UNCHANGED notSeed

\* AsRef::<[u8]>::as_ref(&seed)
ViewBytes ==
    /\ seed.tag = "Ok" /\ view.op = "none"
    /\ view' = [op |-> "as_ref_bytes", val |-> SeedAsRefBytes(seed), parsed |-> NoSeed]
    /\ UNCHANGED <<str, seed>>
    /\ UNCHANGED notSeed

\* AsRef::<str>::as_ref(&seed)
ViewStr ==
    /\ seed.tag = "Ok" /\ view.op = "none"
    /\ view' = [op |-> "as_ref_str", val |-> SeedAsRefStr(seed), parsed |-> NoSeed]
    /\ UNCHANGED <<str, seed>>
    /\ UNCHANGED notSeed

\* format!("{seed}")
ViewDisplay ==
    /\ seed.tag = "Ok" /\ view.op = "none"
    /\ view' = [op |-> "display", val |-> SeedDisplay(seed), parsed |-> NoSeed]
    /\ UNCHANGED <<str, seed>>
    /\ UNCHANGED notSeed

\* seed.serialize(..)
ViewSerialize ==
    /\ seed.tag = "Ok" /\ view.op = "none"
    /\ view' = [op |-> "serialize", val |-> SeedSerialize(seed), parsed |-> NoSeed]
    /\ UNCHANGED <<str, seed>>
    /\ UNCHANGED notSeed

\* GameSeed::deserialize(..) on the serialized form
ViewDeserialize ==
    /\ seed.tag = "Ok" /\ view.op = "serialize"
    /\ view' = [op |-> "deserialize", val |-> view.val,
                parsed |-> SeedDeserialize(view.val)]
    /\ UNCHANGED <<str, seed>>
    /\ UNCHANGED notSeed

\* JstrisBag::new(seed): the argument of AleaPrng::new
ViewPrngSeeds ==
    /\ seed.tag = "Ok" /\ view.op = "none"
    /\ view' = [op |-> "prng_seeds", val |-> PrngSeeds(seed), parsed |-> NoSeed]
    /\ UNCHANGED <<str, seed>>
    /\ UNCHANGED notSeed

----------------------------------------------------------------------------
(* JstrisBag                                                               *)

\* const FRESH_BAG
FRESH_BAG == << "I", "O", "T", "L", "J", "S", "Z" >>

Pieces == { FRESH_BAG[i] : i \in DOMAIN FRESH_BAG }

\* the pieces the patterns S | Z match
SZ == {"S", "Z"}

\* AleaPrng::random returns a value in [0, 1): the values n / RandGrid,
\* 0 <= n < RandGrid, stand for its outputs
RandGrid == 7

\* (rng.random() * len as f64).floor() for the output n / RandGrid
DrawIndex(n, len) == (n * len) \div RandGrid

\* the indices one draw from a pool of len pieces can give
DrawIndexes(len) == { DrawIndex(n, len) : n \in 0..(RandGrid - 1) }

\* Faulty variant of Remove: the removed piece stays in the pool and the
\* last one is dropped instead
Remove_KeepsPiece(pool, i) == SubSeq(pool, 1, Len(pool) - 1)

\* the pool after bag.remove(i) (i counts from 0)
Remove(pool, i) == SubSeq(pool, 1, i) \o SubSeq(pool, i + 2, Len(pool))

Reverse(a) == [i \in 1..Len(a) |-> a[Len(a) + 1 - i]]

\* Faulty variant of Collect: the array is collected in removal order
Collect_Unreversed(array) == array

\* array.into_iter().rev().collect()
Collect(array) == Reverse(array)

RECURSIVE FreshArraysFrom(_, _, _)
\* the array of fresh_bag: every array the remaining k draws can produce,
\* given the pool left and the pieces removed so far, in removal order
FreshArraysFrom(pool, array, k) ==
    IF k = 0 THEN { array }
    ELSE UNION { FreshArraysFrom(Remove(pool, i), Append(array, pool[i + 1]), k - 1)
                 : i \in DrawIndexes(Len(pool)) }

\* the arrays fresh_bag can build
FreshArrays == FreshArraysFrom(FRESH_BAG, <<>>, Len(FRESH_BAG))

\* fresh_bag(rng): the bags it can return
FreshBags == { Collect(array) : array \in FreshArrays }

Swap(a, i, j) == [a EXCEPT ![i] = a[j], ![j] = a[i]]

\* Faulty variant of SeamCorrect: the first bag is left as generated
SeamCorrect_None(arr) == arr

\* Faulty variant of SeamCorrect: an S/Z at the end is always swapped with
\* the piece before it
SeamCorrect_Adjacent(arr) ==
    IF Len(arr) >= 2 /\ arr[Len(arr)] \in SZ
    THEN Swap(arr, Len(arr), Len(arr) - 1)
    ELSE arr

\* the match and swap of JstrisBag::new on the first bag
SeamCorrect(arr) ==
    LET n == Len(arr)
    IN  IF n >= 3 /\ arr[n - 1] \in SZ /\ arr[n] \in SZ THEN Swap(arr, n, n - 2)
        ELSE IF n >= 2 /\ arr[n] \in SZ THEN Swap(arr, n, n - 1)
        ELSE arr

\* the most get() calls of a run
MaxCalls == 15

\* the set of pieces of the current block after one more piece is returned
NextBlock(piece) == IF calls % Len(FRESH_BAG) = 0 THEN {piece} ELSE block \cup {piece}

\* JstrisBag::new(seed)
New ==
    /\ ~built
    /\ \E array \in FreshArrays :
          /\ bag' = SeamCorrect(Collect(array))
          /\ removal' = array
          /\ swapped' = (SeamCorrect(Collect(array)) # Collect(array))
    /\ built' = TRUE
    /\ draws' = draws + Len(FRESH_BAG)
    /\ UNCHANGED <<calls, got, gotPrev, block, gotDraw>>
    /\ UNCHANGED notBag

\* self.bag.pop() on a non-empty bag
Top(b) == [piece |-> b[Len(b)], rest |-> SubSeq(b, 1, Len(b) - 1)]

\* the draw that removed piece from the pool
DrawOf(array, piece) == CHOOSE k \in 1..Len(array) : array[k] = piece

\* the array, piece marked as returned
Returned(array, piece) == [array EXCEPT ![DrawOf(array, piece)] = "-"]

\* Faulty variant of Refilled: the refill is corrected like the first bag
Refilled_Corrected(fresh) == SeamCorrect(fresh)

\* self.bag = fresh_bag(&mut self.prng): the bag is stored as generated
Refilled(fresh) == fresh

\* JstrisBag::get, the bag holding a piece
GetPop ==
    /\ built /\ calls < MaxCalls
    /\ bag # <<>>
    /\ bag' = Top(bag).rest
    /\ got' = Top(bag).piece
    /\ gotPrev' = got
    /\ block' = NextBlock(Top(bag).piece)
    /\ gotDraw' = DrawOf(removal, Top(bag).piece)
    /\ removal' = Returned(removal, Top(bag).piece)
    /\ calls' = calls + 1
    /\ UNCHANGED <<built, draws, swapped>>
    /\ UNCHANGED notBag

\* JstrisBag::get, the bag empty: a fresh bag, then the recursive get()
GetRefill ==
    /\ built /\ calls < MaxCalls
    /\ bag = <<>>
    /\ \E array \in FreshArrays :
          /\ bag' = Top(Refilled(Collect(array))).rest
          /\ got' = Top(Refilled(Collect(array))).piece
          /\ block' = NextBlock(Top(Refilled(Collect(array))).piece)
          /\ gotDraw' = DrawOf(array, Top(Refilled(Collect(array))).piece)
          /\ removal' = Returned(array, Top(Refilled(Collect(array))).piece)
    /\ swapped' = FALSE
    /\ gotPrev' = got
    /\ draws' = draws + Len(FRESH_BAG)
    /\ calls' = calls + 1
    /\ UNCHANGED built
    /\ UNCHANGED notBag

----------------------------------------------------------------------------
(* ExpectedJstrisReplayVersion                                             *)

\* a JSON number is written major.frac, frac a sequence of digits 0..9;
\* text is a sequence of character codes ('0' is 48, '.' is 46)

RECURSIVE StripZeros(_)
\* the fraction digits without their trailing zeros
StripZeros(frac) ==
    IF frac # <<>> /\ frac[Len(frac)] = 0
    THEN StripZeros(SubSeq(frac, 1, Len(frac) - 1))
    ELSE frac

RECURSIVE DecimalDigits(_)
\* the decimal digits of a natural number
DecimalDigits(n) ==
    IF n < 10 THEN <<n>> ELSE Append(DecimalDigits(n \div 10), n % 10)

DigitChars(ds) == [i \in 1..Len(ds) |-> 48 + ds[i]]

\* f32::deserialize then format!("{ver}"): the shortest decimal text that
\* names the f32 (for numbers of at most 6 significant digits, the number
\* without trailing fraction zeros, and without the point if none is left)
FormatF32(major, frac) ==
    DigitChars(DecimalDigits(major))
        \o (IF StripZeros(frac) = <<>> THEN <<>>
            ELSE <<46>> \o DigitChars(StripZeros(frac)))

\* ver.split_once('.'), with the (&*ver, "0") of the else branch
SplitVersion(text) ==
    IF \E i \in 1..Len(text) : text[i] = 46
    THEN LET i == CHOOSE k \in 1..Len(text) :
                     text[k] = 46 /\ \A j \in 1..(k - 1) : text[j] # 46
         IN  [maj |-> SubSeq(text, 1, i - 1), min |-> SubSeq(text, i + 1, Len(text))]
    ELSE [maj |-> text, min |-> <<48>>]

RECURSIVE DigitsValue(_)
\* the value of a string of at most 9 digit characters
DigitsValue(text) ==
    IF text = <<>> THEN 0
    ELSE 10 * DigitsValue(SubSeq(text, 1, Len(text) - 1)) + (text[Len(text)] - 48)

\* str::parse::<u8>
ParseU8(text) ==
    IF text = <<>> \/ Len(text) > 9 \/ \E i \in 1..Len(text) : text[i] \notin 48..57
    THEN [ok |-> FALSE, val |-> 0]
    ELSE IF DigitsValue(text) > U8Max
    THEN [ok |-> FALSE, val |-> 0]
    ELSE [ok |-> TRUE, val |-> DigitsValue(text)]

\* Faulty variant of MinorOk: the minimum minor itself is rejected
MinorOk_Strict(min, MIN) == min > MIN

\* the minor check of the deserialize: !(min >= MIN) is an error
MinorOk(min, MIN) == min >= MIN

\* impl Deserialize for ExpectedJstrisReplayVersion<MAJ, MIN>, on the JSON
\* number major.frac
VersionDeserialize(MAJ, MIN, major, frac) ==
    LET pair == SplitVersion(FormatF32(major, frac))
        maj == ParseU8(pair.maj)
        min == ParseU8(pair.min)
    IN  IF ~maj.ok \/ ~min.ok THEN [tag |-> "ParseError", actual_minor |-> 0]
        ELSE IF maj.val # MAJ THEN [tag |-> "WrongMajor", actual_minor |-> 0]
        ELSE IF ~MinorOk(min.val, MIN) THEN [tag |-> "WrongMinor", actual_minor |-> 0]
        ELSE [tag |-> "Ok", actual_minor |-> min.val]

\* impl Serialize for ExpectedJstrisReplayVersion<MAJ, MIN>: the f32
\* MAJ + MIN / 10^k handed to serialize_f32, k the number of digits of MIN
\* (the loop divides min by 10 while it is >= 1), as the number major.frac
VersionSerialize(MAJ, MIN, v) ==
    [major |-> MAJ,
     frac |-> IF MIN >= 1 THEN StripZeros(DecimalDigits(MIN)) ELSE <<>>]

NoWire == [MAJ |-> 0, MIN |-> 0, major |-> 0, frac |-> <<>>]

NoVersion == [tag |-> "None", actual_minor |-> 0]

NoNumber == [major |-> 0 - 1, frac |-> <<>>]

\* the largest integer part of the numbers decoded
MaxWireMajor == 4

\* the most fraction digits of the numbers decoded
MaxFracLen == 3

\* the (MAJ, MIN) type parameters used: Metadata::version is <3, 0>, the
\* defaults of the type are <3, 3>
VersionParams == { <<3, 0>>, <<3, 3>> }

WireNumbers ==
    [major : 0..MaxWireMajor,
     frac : UNION { [1..n -> 0..9] : n \in 0..MaxFracLen }]

\* ExpectedJstrisReplayVersion::<MAJ, MIN>::deserialize(..)
DecodeVersion ==
    /\ version.tag = "None"
    /\ version' = VersionDeserialize(wire.MAJ, wire.MIN, wire.major, wire.frac)
    /\ UNCHANGED <<wire, rewire>>
    /\ UNCHANGED notVersion

\* version.serialize(..) on the decoded version
EncodeVersion ==
    /\ version.tag = "Ok"
    /\ rewire = NoNumber
    /\ rewire' = VersionSerialize(wire.MAJ, wire.MIN, version)
    /\ UNCHANGED <<wire, version>>
    /\ UNCHANGED notVersion

----------------------------------------------------------------------------
(* Mash and AleaPrng                                                       *)

\* u32 and f64 values exceed the model checker's integers: an unsigned
\* integer is a sequence of 12-bit limbs, least significant first, and an f64
\* is such an integer with a fixed binary scale

LimbBits == 12

Base == Pow2(LimbBits)

Limb(a, i) == IF i \in 1..Len(a) THEN a[i] ELSE 0

RECURSIVE Big(_)
\* the limbs of a small integer
Big(n) == IF n = 0 THEN <<>> ELSE <<n % Base>> \o Big(n \div Base)

RECURSIVE Carried(_, _)
\* the limbs of the number with the column sums cols
Carried(cols, carry) ==
    IF cols = <<>> THEN Big(carry)
    ELSE <<(Head(cols) + carry) % Base>>
             \o Carried(Tail(cols), (Head(cols) + carry) \div Base)

\* bit i (from 1) of a
Bit(a, i) == (Limb(a, (i - 1) \div LimbBits + 1) \div Pow2((i - 1) % LimbBits)) % 2

IsZero(a) == \A i \in 1..Len(a) : a[i] = 0

\* the number of significant bits
BitLen(a) ==
    IF IsZero(a) THEN 0
    ELSE LET t == CHOOSE i \in 1..Len(a) :
                      a[i] # 0 /\ \A j \in (i + 1)..Len(a) : a[j] = 0
         IN  (t - 1) * LimbBits
                 + (CHOOSE n \in 1..LimbBits : Pow2(n) > a[t] /\ Pow2(n - 1) <= a[t])

\* a mod 2^w, in the limbs that hold w bits
Low(a, w) ==
    <<>> \o [i \in 1..((w + LimbBits - 1) \div LimbBits) |->
                IF i * LimbBits <= w THEN Limb(a, i)
                ELSE Limb(a, i) % Pow2(w % LimbBits)]

\* a div 2^d
ShiftRight(a, d) ==
    LET q == d \div LimbBits
        r == d % LimbBits
    IN  IF Len(a) <= q THEN <<>>
        ELSE <<>> \o [i \in 1..(Len(a) - q) |->
                         Limb(a, i + q) \div Pow2(r)
                             + (Limb(a, i + q + 1) % Pow2(r)) * Pow2(LimbBits - r)]

\* a * 2^d
ShiftLeft(a, d) ==
    LET q == d \div LimbBits
        r == d % LimbBits
    IN  <<>> \o [i \in 1..(Len(a) + q + 1) |->
                    IF i <= q THEN 0
                    ELSE (Limb(a, i - q) % Pow2(LimbBits - r)) * Pow2(r)
                             + Limb(a, i - q - 1) \div Pow2(LimbBits - r)]

\* a + b
BAdd(a, b) ==
    Carried(<<>> \o [i \in 1..(IF Len(a) > Len(b) THEN Len(a) ELSE Len(b)) |->
                         Limb(a, i) + Limb(b, i)], 0)

RECURSIVE SubFrom(_, _, _, _, _)
SubFrom(a, b, i, n, borrow) ==
    IF i > n THEN <<>>
    ELSE LET dif == Base + Limb(a, i) - Limb(b, i) - borrow
         IN  <<dif % Base>> \o SubFrom(a, b, i + 1, n, IF dif < Base THEN 1 ELSE 0)

\* a - b modulo 2^w
BSub(a, b, w) == Low(SubFrom(a, b, 1, (w + LimbBits - 1) \div LimbBits, 0), w)

\* a < b
BLess(a, b) ==
    \E i \in 1..Len(b) :
        /\ Limb(a, i) < b[i]
        /\ \A j \in (i + 1)..(Len(a) + Len(b)) : Limb(a, j) = Limb(b, j)

RECURSIVE Column(_, _, _, _)
\* the sum of the products a[i] * b[k + 1 - i] from limb i of a on
Column(a, b, k, i) ==
    IF i > Len(a) THEN 0
    ELSE a[i] * Limb(b, k + 1 - i) + Column(a, b, k, i + 1)

\* a without its leading zero limbs
Trim(a) == SubSeq(a, 1, (BitLen(a) + LimbBits - 1) \div LimbBits)

\* a * b
BMul(a, b) ==
    Trim(Carried(<<>> \o [k \in 1..(Len(a) + Len(b)) |-> Column(a, b, k, 1)], 0))

\* the value of an integer small enough to be one
RECURSIVE Val(_)
Val(a) == IF a = <<>> THEN 0 ELSE a[1] + Base * Val(Tail(a))

\* decimal literals are written in groups of 8 digits
DecimalGroup == 100000000

RECURSIVE FromDecimal(_)
\* the integer whose decimal digits are the groups gs
FromDecimal(gs) ==
    IF gs = <<>> THEN <<>>
    ELSE Trim(BAdd(BMul(FromDecimal(SubSeq(gs, 1, Len(gs) - 1)), Big(DecimalGroup)),
                   Big(gs[Len(gs)])))

\* the significant bits an f64 keeps
F64Mantissa == 53

\* Faulty variant of Round53: the dropped bits are truncated
Round53_Truncate(a) ==
    LET d == BitLen(a) - F64Mantissa
    IN  IF d <= 0 THEN a ELSE ShiftLeft(ShiftRight(a, d), d)

\* the quotient q of the division by a power of two, rounded to nearest:
\* half says that the remainder is at least half the divisor, more that it
\* differs from half of it
Nearest(q, half, more) ==
    IF half /\ (more \/ Bit(q, 1) = 1) THEN BAdd(q, <<1>>) ELSE q

\* a without its d lowest bits, rounded to nearest, ties to even
Rounded(a, d) ==
    IF d <= 0 THEN a
    ELSE ShiftLeft(Nearest(ShiftRight(a, d), Bit(a, d) = 1, ~IsZero(Low(a, d - 1))),
                   d)

\* the f64 nearest to the exact result a of a multiplication or addition:
\* 53 significant bits, ties to even
Round53(a) == Rounded(a, BitLen(a) - F64Mantissa)

\* whether the decimal literal 0.gs (its digits after the point in groups
\* of 8) denotes the f64 m / 2^s (m of at most 53 bits): it lies within half
\* a unit in the last place of it, a quarter on the lower side of a power of
\* two, a tie going to an even mantissa
IsF64(gs, m, s) ==
    LET A == ShiftLeft(FromDecimal(gs), s)
        TenE == FromDecimal(<<1>> \o [i \in 1..Len(gs) |-> 0])
        B == BMul(m, TenE)
        w == (Len(A) + Len(B) + 1) * LimbBits
        below == BLess(A, B)
        diff == IF below THEN BSub(B, A, w) ELSE BSub(A, B, w)
        pow2 == \A i \in 1..(BitLen(m) - 1) : Bit(m, i) = 0
        x == ShiftLeft(diff, F64Mantissa + 1 - BitLen(m)
                             + (IF below /\ pow2 THEN 1 ELSE 0))
        even == BitLen(m) < F64Mantissa \/ Bit(m, 1) = 0
    IN  BLess(x, TenE) \/ (even /\ ~BLess(TenE, x) /\ ~(below /\ pow2))

\* a u32 is 32 bits wide
U32Bits == 32

\* Mash::new: state 4_022_871_197
MashNew == Low(FromDecimal(<<40, 22871197>>), U32Bits)

\* the binary scale of MashFactor
MashScale == 37

\* the f64 0.02519603282416938 is 3462916383 / 2^37
MashFactor == FromDecimal(<<34, 62916383>>)

\* the literal 0.02519603 28241693 8
MashFactorLiteral == <<2519603, 28241693, 80000000>>

\* the literal 2.3283064365386963e-10: 0.00000000 02328306 43653869 63
TwoToMinus32Literal == <<0, 2328306, 43653869, 63000000>>

\* the end of a round of Mash::mash: n3 is the sum of the last +=
MashEnd(n3, ovf) ==
    [state |-> Low(n3, U32Bits), ovf |-> ovf \/ Bit(n3, U32Bits + 1) = 1]

\* h2 is the h of h *= self.state: state = h as u32, h -= state,
\* state += (h * 4294967296.) as u32
MashThird(h2, ovf) ==
    MashEnd(BAdd(ShiftRight(h2, MashScale),
                 ShiftRight(Low(h2, MashScale), MashScale - U32Bits)),
            ovf)

\* h1 is the h of 0.02519603282416938 * state: state = h as u32, h -= state,
\* h *= state
MashSecond(h1, ovf) ==
    MashThird(Round53(BMul(Low(h1, MashScale), ShiftRight(h1, MashScale))), ovf)

\* n0 is the sum of state += b as u32: h = 0.02519603282416938 * state
MashFirst(n0) ==
    MashSecond(Round53(BMul(MashFactor, Low(n0, U32Bits))),
               Bit(n0, U32Bits + 1) = 1)

\* one round of the loop of Mash::mash on the code unit b; ovf says that one
\* of the two += on the u32 state overflowed
MashStep(state, b) == MashFirst(BAdd(state, Big(b)))

RECURSIVE Mash(_, _, _)
\* the rounds of Mash::mash after the round with result r: a build with
\* overflow checks panics at the round whose += overflows
MashRound(r, rest, overflowChecks) ==
    IF r.ovf /\ overflowChecks THEN [state |-> r.state, panic |-> TRUE]
    ELSE Mash([state |-> r.state, panic |-> FALSE], rest, overflowChecks)

\* Mash::mash on the masher m = [state, panic]: the masher afterwards, whose
\* state / 2^32 is the value returned
Mash(m, data, overflowChecks) ==
    IF data = <<>> THEN m
    ELSE MashRound(MashStep(m.state, Head(data)), Tail(data), overflowChecks)

RECURSIVE MashAll(_, _, _)
\* the mashers after the call that left the masher r, up to a panic
MashNext(r, rest, overflowChecks) ==
    IF r.panic THEN <<r>> ELSE <<r>> \o MashAll(r, rest, overflowChecks)

\* the masher after each of the successive calls masher.mash(data), data
\* from datas, up to a panic
MashAll(m, datas, overflowChecks) ==
    IF datas = <<>> THEN <<>>
    ELSE MashNext(Mash(m, Head(datas), overflowChecks), Tail(datas), overflowChecks)

RECURSIVE AleaMashes(_)
\* the strings AleaPrng::new mashes: " " three times, then each seed three
\* times
AleaMashes(seedList) ==
    IF seedList = <<>> THEN << <<32>>, <<32>>, <<32>> >>
    ELSE AleaMashes(SubSeq(seedList, 1, Len(seedList) - 1))
             \o [j \in 1..3 |-> seedList[Len(seedList)]]

RECURSIVE AleaFraction(_, _, _)
\* s0, s1 or s2 (j = 1, 2, 3) after the first t seeds, as a multiple of
\* 2^-32: s -= mash(seed), and s += 1 if s < 0, is a subtraction modulo 2^32
AleaFraction(ms, j, t) ==
    IF t = 0 THEN ms[j].state
    ELSE BSub(AleaFraction(ms, j, t - 1), ms[3 * t + j].state, U32Bits)

\* the multiplier of AleaPrng::random
AleaMultiplier == 2091639

\* the generator AleaPrng::new returns after the mashes ms of n seeds
AleaSelf(ms, n) ==
    IF ms[Len(ms)].panic
    THEN [tag |-> "Panic", c |-> 0, s0 |-> <<>>, s1 |-> <<>>, s2 |-> <<>>]
    ELSE [tag |-> "Ok", c |-> 1,
          s0 |-> AleaFraction(ms, 1, n),
          s1 |-> AleaFraction(ms, 2, n),
          s2 |-> AleaFraction(ms, 3, n)]

\* AleaPrng::new: s0, s1 and s2 are multiples of 2^-32 in [0, 1), kept as
\* their numerators
AleaPrngNew(seedList, overflowChecks) ==
    AleaSelf(MashAll([state |-> MashNew, panic |-> FALSE], AleaMashes(seedList),
                     overflowChecks),
             Len(seedList))

\* the t of AleaPrng::random, as a multiple of 2^-32
AleaT(g) ==
    Round53(BAdd(Round53(BMul(Big(AleaMultiplier), g.s0)), Big(g.c)))

\* the generator after a random() whose t is t
AleaShift(g, t) ==
    [tag |-> "Ok",
     c |-> Val(ShiftRight(t, U32Bits)),
     s0 |-> g.s1,
     s1 |-> g.s2,
     s2 |-> Low(t, U32Bits)]

\* AleaPrng::random: the generator afterwards; its s2 is the value returned
AleaPrngRandom(g) == AleaShift(g, AleaT(g))

NoGen == [tag |-> "None", c |-> 0, s0 |-> <<>>, s1 |-> <<>>, s2 |-> <<>>]

Gens == 1..2

NoGens == [i \in Gens |-> NoGen]

NoOuts == [i \in Gens |-> <<>>]

\* the most calls of random() on one generator
MaxRandoms == 5

\* "asdf"
Asdf == <<97, 115, 100, 102>>

\* the seed lists used: ["asdf"], ["ad"], ["a", "b"]
SeedLists == { <<Asdf>>, << <<97, 100>> >>, << <<97>>, <<98>> >> }

\* AleaPrng::new(seeds) for generator i
AleaNew(i) ==
    /\ gens[i].tag = "None"
    /\ gens' = [gens EXCEPT ![i] = AleaPrngNew(seeds, checks)]
    /\ UNCHANGED <<seeds, checks, outs>>
    /\ UNCHANGED notPrng

\* rng.random() on generator i
AleaRandom(i) ==
    /\ gens[i].tag = "Ok"
    /\ Len(outs[i]) < MaxRandoms
    /\ gens' = [gens EXCEPT ![i] = AleaPrngRandom(gens[i])]
    /\ outs' = [outs EXCEPT ![i] = Append(outs[i], gens'[i].s2)]
    /\ UNCHANGED <<seeds, checks>>
    /\ UNCHANGED notPrng

----------------------------------------------------------------------------
(* Specifications                                                          *)

IdleWord == raw = 0 /\ ev = NoEvent /\ back = -1

IdleCodec ==
    /\ bytes = <<>> /\ inner = <<>> /\ result = NoResult
    /\ encodedFrom = <<>> /\ iter = NoIter /\ yielded = <<>>

IdleTimestamp == dur = [kind |-> "none", val |-> 0] /\ ts = NoTimestamp

IdleSeed == str = <<>> /\ seed = NoSeed /\ view = NoView

IdleBag ==
    /\ bag = <<>> /\ built = FALSE /\ draws = 0 /\ calls = 0
    /\ got = "-" /\ gotPrev = "-" /\ block = {}
    /\ removal = <<>> /\ gotDraw = 0 /\ swapped = FALSE

IdlePrng == seeds = <<>> /\ checks = FALSE /\ gens = NoGens /\ outs = NoOuts

IdleVersion == wire = NoWire /\ version = NoVersion /\ rewire = NoNumber

\* Event <-> u16: every u16 value is a possible input
InitWord ==
    /\ raw \in 0..U16Max /\ ev = NoEvent /\ back = -1
    /\ IdleCodec /\ IdleTimestamp /\ IdleSeed /\ IdleBag /\ IdleVersion /\ IdlePrng

NextWord ==
    \/ WordDecode
    \/ WordEncode

SpecWord == InitWord /\ [][NextWord]_vars

\* Vec<u8> -> EventList: the caller builds a buffer and decodes it
InitBuffer == IdleWord /\ IdleCodec /\ IdleTimestamp /\ IdleSeed /\ IdleBag /\ IdleVersion /\ IdlePrng

NextBuffer ==
    \/ \E b \in PushBytes : PushByte(b)
    \/ Decode

SpecBuffer == InitBuffer /\ [][NextBuffer]_vars

\* EventList: an empty list (decoded from the empty buffer) is mutated,
\* encoded, decoded again and iterated
InitCodec == IdleWord /\ IdleCodec /\ IdleTimestamp /\ IdleSeed /\ IdleBag /\ IdleVersion /\ IdlePrng

NextCodec ==
    \/ \E w \in PushWords : Push(w)
    \/ Pop
    \/ EncodeList
    \/ Decode
    \/ Unwrap
    \/ IterNew
    \/ IterNext
    \/ IterDrop

SpecCodec == InitCodec /\ [][NextCodec]_vars

\* the timestamp constructors: every u16 and a range of durations
InitTimestamp ==
    /\ dur \in [kind : {"u16"}, val : 0..U16Max]
               \cup [kind : {"duration"}, val : (-NegDurationMs)..MaxDurationMs]
    /\ ts = NoTimestamp
    /\ IdleWord /\ IdleCodec /\ IdleSeed /\ IdleBag /\ IdleVersion /\ IdlePrng

NextTimestamp ==
    \/ ConvertU16
    \/ ConvertDuration

SpecTimestamp == InitTimestamp /\ [][NextTimestamp]_vars

\* GameSeed: the caller builds a string, parses it and takes a view
InitSeed == IdleWord /\ IdleCodec /\ IdleTimestamp /\ IdleSeed /\ IdleBag /\ IdleVersion /\ IdlePrng

NextSeed ==
    \/ \E c \in StrBytes : PushChar(c)
    \/ Parse
    \/ ViewBytes
    \/ ViewStr
    \/ ViewDisplay
    \/ ViewSerialize
    \/ ViewDeserialize
    \/ ViewPrngSeeds

SpecSeed == InitSeed /\ [][NextSeed]_vars

\* JstrisBag: construction, then get() calls
InitBag == IdleWord /\ IdleCodec /\ IdleTimestamp /\ IdleSeed /\ IdleBag /\ IdleVersion /\ IdlePrng

NextBag ==
    \/ New
    \/ GetPop
    \/ GetRefill

SpecBag == InitBag /\ [][NextBag]_vars

\* the replay version: a JSON number is decoded against (MAJ, MIN) and the
\* decoded version is serialized again
InitVersion ==
    /\ wire \in { [MAJ |-> p[1], MIN |-> p[2], major |-> n.major, frac |-> n.frac]
                  : p \in VersionParams, n \in WireNumbers }
    /\ version = NoVersion /\ rewire = NoNumber
    /\ IdleWord /\ IdleCodec /\ IdleTimestamp /\ IdleSeed /\ IdleBag /\ IdlePrng

NextVersion ==
    \/ DecodeVersion
    \/ EncodeVersion

SpecVersion == InitVersion /\ [][NextVersion]_vars

\* two generators are built from one seed list and stepped independently
InitPrng ==
    /\ seeds \in SeedLists
    /\ checks \in BOOLEAN
    /\ gens = NoGens /\ outs = NoOuts
    /\ IdleWord /\ IdleCodec /\ IdleTimestamp /\ IdleSeed /\ IdleBag /\ IdleVersion

NextPrng ==
    \/ \E i \in Gens : AleaNew(i)
    \/ \E i \in Gens : AleaRandom(i)

SpecPrng == InitPrng /\ [][NextPrng]_vars

----------------------------------------------------------------------------
(* Properties                                                              *)

\* the raw timestamps of the list being iterated, with r[0] = 0
RawAt(j) == IF j = 0 THEN 0 ELSE inner[j].timestamp

\* W(i): the number of indices j <= i whose raw value is below the one before
WrapsUpTo(i) == Cardinality({ j \in 1..i : RawAt(j) < RawAt(j - 1) })

Timestamps(list) == [i \in 1..Len(list) |-> list[i].timestamp]

\* C1: the i-th pair yielded by EventList::iter carries the elapsed time
\* 4096 * W(i) + r[i], W(i) counting the strict decreases of the raw
\* timestamps up to i (equal consecutive values do not advance the base);
\* raw values [4000, 4090, 50, 4080] yield 4000, 4090, 4146, 8176.
C1_AbsoluteTime ==
    iter.live =>
        /\ Len(yielded) = iter.pos
        /\ \A i \in 1..Len(yielded) :
              yielded[i][2] = 4096 * WrapsUpTo(i) + inner[i].timestamp
        /\ (Timestamps(inner) = <<4000, 4090, 50, 4080>> /\ Len(yielded) = 4)
              => [i \in 1..4 |-> yielded[i][2]] = <<4000, 4090, 4146, 8176>>

\* C1 witness: the iterator has walked the list [4000, 4090, 50, 4080]
C1_Witness ==
    /\ iter.live
    /\ Timestamps(inner) = <<4000, 4090, 50, 4080>>
    /\ Len(yielded) = 4
    /\ yielded[4][2] = 8176

\* the event two zero bytes decode to: timestamp 0, input kind 0
ZeroEvent == [timestamp |-> 0, input |-> "MoveLeft"]

\* C2: decoding the bytes produced by encode never fails; it gives the
\* original list when its length is even, and the original list followed by
\* one event with timestamp 0 and input kind 0 when its length is odd.
C2_RoundTrip ==
    (encodedFrom # <<>> /\ result.tag # "None") =>
        /\ result.tag = "Ok"
        /\ result.list = IF Len(encodedFrom[1]) % 2 = 0
                         THEN encodedFrom[1]
                         ELSE Append(encodedFrom[1], ZeroEvent)

\* C2 witness: a list of three events was encoded and decoded again
C2_Witness ==
    /\ encodedFrom # <<>>
    /\ Len(encodedFrom[1]) = 3
    /\ result.tag = "Ok"
    /\ Len(result.list) = 4

\* the pieces a bag holds
Range(a) == { a[i] : i \in DOMAIN a }

\* C3: the pieces returned by get(), cut into blocks of 7 calls, never repeat
\* within a block, every complete block holds all 7 kinds, and the 8th call
\* returns the first piece of a newly generated bag.
C3_BlockPermutation ==
    (built /\ calls > 0) =>
        /\ Cardinality(block) = ((calls - 1) % 7) + 1
        /\ block \subseteq Pieces
        /\ got \in block
        /\ (calls % 7 = 0) => (block = Pieces /\ bag = <<>>)
        /\ (calls % 7 = 1 /\ calls > 1) =>
              /\ draws = 7 * (((calls - 1) \div 7) + 1)
              /\ Len(bag) = 6
              /\ Range(bag) \cup {got} = Pieces

\* C3 witness: the second block of 7 calls is complete
C3_Witness == built /\ calls = 14 /\ block = Pieces /\ draws = 14

\* C4 as stated: the 6th and 7th pieces returned from the first bag are
\* never both in {S, Z}.
C4_LastTwoNotBothSZ ==
    (built /\ calls = 7) => ~(gotPrev \in SZ /\ got \in SZ)

\* C4 as amended: the 1st and 2nd pieces returned from the first bag (the
\* last two elements of the bag buffer, which get() pops first) are never
\* both in {S, Z}.
C4_FirstTwoNotBothSZ ==
    (built /\ calls = 2) => ~(gotPrev \in SZ /\ got \in SZ)

\* C4 witness: two pieces of the first bag were returned, the second an S/Z
C4_Witness == built /\ calls = 2 /\ got \in SZ /\ gotPrev \notin SZ

\* C5: every timestamp a constructor returns holds a value in 0..4095, and
\* a source value of 4096 or more is rejected with TooBig.
C5_TwelveBits ==
    (ts.tag # "None") =>
        /\ (ts.tag = "Ok") => (ts.val >= 0 /\ ts.val <= 4095)
        /\ (dur.val >= 4096) => ts.tag = "TooBig"

\* C6: every u16 value v decodes, without error or panic, to the event with
\* timestamp v >> 4 (within 0..4095) and the input kind of tag v & 0xF, and
\* that event encodes to (timestamp << 4) | tag = v.
C6_WordBijection ==
    (ev.tag # "None") =>
        /\ ev.tag = "Ok"
        /\ ev.event.timestamp = raw \div 16
        /\ ev.event.timestamp \in 0..4095
        /\ ev.event.input = InputVariants[(raw % 16) + 1]
        /\ (back # -1) =>
              /\ back = raw
              /\ back = ev.event.timestamp * 16 + (raw % 16)

\* C6 witness: the largest value was decoded and encoded again
C6_Witness == raw = 65535 /\ ev.tag = "Ok" /\ back = 65535

\* the event the i-th big-endian 16-bit group of the buffer stands for
GroupEvent(i) ==
    LET w == 256 * bytes[2 * i - 1] + bytes[2 * i]
    IN  [timestamp |-> w \div 16, input |-> InputVariants[(w % 16) + 1]]

\* C7: decoding fails exactly when the buffer length is not a multiple of 4,
\* with NotAligned carrying that length and no list; otherwise it succeeds
\* with length / 2 events taken from the big-endian 16-bit groups in order.
C7_Alignment ==
    (result.tag # "None") =>
        IF Len(bytes) % 4 # 0
        THEN /\ result.tag = "NotAligned"
             /\ result.num_bytes = Len(bytes)
             /\ result.list = <<>>
        ELSE /\ result.tag = "Ok"
             /\ Len(result.list) = Len(bytes) \div 2
             /\ \A i \in 1..Len(result.list) : result.list[i] = GroupEvent(i)

\* C7 witness: a buffer of 8 bytes, not all equal, was decoded
C7_Witness ==
    /\ result.tag = "Ok"
    /\ Len(bytes) = 8
    /\ bytes[1] # bytes[2]
    /\ encodedFrom = <<>>

\* a byte outside a-z and 0-9
BadByte(b) == ~(b \in 97..122 \/ b \in 48..57)

\* C8: parsing fails with WrongLength when the string is empty or longer
\* than 6 bytes; otherwise with InvalidChar carrying the first byte outside
\* a-z and 0-9, if there is one; otherwise it succeeds.
C8_ParseOutcome ==
    (seed.tag # "None") =>
        IF Len(str) = 0 \/ Len(str) > 6
        THEN seed.tag = "WrongLength"
        ELSE IF \E i \in 1..Len(str) : BadByte(str[i])
        THEN /\ seed.tag = "InvalidChar"
             /\ \E i \in 1..Len(str) :
                   /\ BadByte(str[i])
                   /\ \A j \in 1..(i - 1) : ~BadByte(str[j])
                   /\ seed.c = str[i]
        ELSE seed.tag = "Ok"

\* C8 witness: a string with two different bad bytes was rejected
C8_Witness ==
    /\ seed.tag = "InvalidChar"
    /\ Len(str) = 6
    /\ \E i, j \in 1..Len(str) :
          i < j /\ BadByte(str[i]) /\ BadByte(str[j]) /\ str[i] # str[j]

\* C9: for a valid seed string the raw byte view and the serialized form
\* are exactly the string, and parsing the serialized form gives an equal
\* seed.
C9_SeedRoundTrip ==
    (seed.tag = "Ok") =>
        /\ (view.op = "as_ref_bytes") => view.val = str
        /\ (view.op = "serialize") => view.val = str
        /\ (view.op = "deserialize") =>
              (view.val = str /\ view.parsed.tag = "Ok" /\ view.parsed = seed)

\* C9 witness: a seed of three characters was serialized and parsed again
C9_Witness ==
    /\ seed.tag = "Ok"
    /\ Len(str) = 3
    /\ view.op = "deserialize"
    /\ view.parsed = seed

\* C10: the string view of a parsed seed, the text its Display puts between
\* the quotes, and the seed string JstrisBag::new hands to the PRNG are
\* exactly the string parsed.
C10_StringView ==
    (seed.tag = "Ok") =>
        /\ (view.op = "as_ref_str") => view.val = str
        /\ (view.op = "display") => view.val = <<34>> \o str \o <<34>>
        /\ (view.op = "prng_seeds") => view.val = <<str>>

\* the minor version a JSON number carries: its fraction digits, without
\* trailing zeros, read as an integer (0 when there is none)
WireMinor == DigitsValue(DigitChars(StripZeros(wire.frac)))

\* C11 as stated: decoding MAJOR.MINOR against (expected_major,
\* minimum_minor) succeeds exactly when MAJOR = expected_major and
\* MINOR >= minimum_minor, and then records MINOR.
C11_AcceptsIffMajorMinor ==
    (version.tag # "None") =>
        /\ (version.tag = "Ok") <=> (wire.major = wire.MAJ /\ WireMinor >= wire.MIN)
        /\ (version.tag = "Ok") => version.actual_minor = WireMinor

\* C11 as amended: decoding succeeds exactly when MAJOR = expected_major,
\* MINOR fits in a u8 and MINOR >= minimum_minor, and then records MINOR; a
\* number without fraction has minor 0; 3.3 and 3.0 are accepted for (3, 0),
\* 2.9 is rejected for (3, 0), 3.0 is rejected for (3, 3).
C11_VersionValidation ==
    (version.tag # "None") =>
        /\ (version.tag = "Ok") <=>
              (wire.major = wire.MAJ /\ WireMinor <= U8Max /\ WireMinor >= wire.MIN)
        /\ (version.tag = "Ok") => version.actual_minor = WireMinor
        /\ (wire.frac = <<>> /\ version.tag = "Ok") => version.actual_minor = 0
        /\ (wire.major = 3 /\ wire.frac = <<3>> /\ wire.MAJ = 3 /\ wire.MIN = 0)
              => version = [tag |-> "Ok", actual_minor |-> 3]
        /\ (wire.major = 2 /\ wire.frac = <<9>> /\ wire.MAJ = 3 /\ wire.MIN = 0)
              => version.tag # "Ok"
        /\ (wire.major = 3 /\ wire.frac = <<0>> /\ wire.MAJ = 3 /\ wire.MIN = 3)
              => version.tag # "Ok"
        /\ (wire.major = 3 /\ wire.frac = <<0>> /\ wire.MAJ = 3 /\ wire.MIN = 0)
              => version = [tag |-> "Ok", actual_minor |-> 0]

\* C11 witness: 3.3 was decoded against (3, 0)
C11_Witness ==
    /\ wire = [MAJ |-> 3, MIN |-> 0, major |-> 3, frac |-> <<3>>]
    /\ version = [tag |-> "Ok", actual_minor |-> 3]

\* the values test_prng::asdf expects: 0.80241885 03623009, 0.47252976
\* 94094479, 0.94966475 0834927, 0.56191154 77893502, 0.69474858 41810703
AsdfRandoms ==
    << <<80241885, 3623009>>,
       <<47252976, 94094479>>,
       <<94966475, 8349270>>,
       <<56191154, 77893502>>,
       <<69474858, 41810703>> >>

\* the literals of the source denote the f64 values the model computes with
AleaLiterals ==
    /\ IsF64(MashFactorLiteral, MashFactor, MashScale)
    /\ IsF64(TwoToMinus32Literal, <<1>>, U32Bits)

\* the values returned: a generator built from ["asdf"] returns the five
\* values of test_prng::asdf, in either build; each value returned is the new
\* s2, a multiple of 2^-32 in [0, 1); two generators built from the same seed
\* list return the same values
AleaOutputs ==
    \A i \in Gens :
        LET n == Len(outs[i])
        IN  /\ (n > 0) =>
                  /\ outs[i][n] = gens[i].s2
                  /\ gens[i].s2 = Low(gens[i].s2, U32Bits)
                  /\ gens[i].c <= AleaMultiplier
            /\ (seeds = <<Asdf>> /\ gens[i].tag # "None") => gens[i].tag = "Ok"
            /\ (seeds = <<Asdf>> /\ n \in 1..Len(AsdfRandoms)) =>
                  IsF64(AsdfRandoms[n], outs[i][n], U32Bits)
            /\ \A j \in Gens :
                  Len(outs[j]) >= n => SubSeq(outs[j], 1, n) = outs[i]

\* the step: random() moves s1 to s0 and s2 to s1, and the new carry and the
\* new s2 are the integer and the fractional part of
\* t = 2091639 * s0 + carry * 2^-32
AleaStep ==
    [][\A i \in Gens :
          (gens[i].tag = "Ok" /\ gens'[i] # gens[i]) =>
              /\ gens'[i].s0 = gens[i].s1
              /\ gens'[i].s1 = gens[i].s2
              /\ Low(BAdd(ShiftLeft(Big(gens'[i].c), U32Bits), gens'[i].s2),
                     2 * U32Bits)
                    = Low(BAdd(BMul(Big(AleaMultiplier), gens[i].s0), Big(gens[i].c)),
                          2 * U32Bits)]_vars

\* C12: a generator built from ["asdf"] returns 0.8024188503623009,
\* 0.4725297694094479, 0.949664750834927, 0.5619115477893502 and
\* 0.6947485841810703 from its first five random() calls; each step computes
\* t = 2091639 * s0 + carry * 2^-32, sets the carry to the integer part of t,
\* shifts s0 <- s1, s1 <- s2, s2 <- fractional part of t, and returns the new
\* s2, which is in [0, 1).
C12_PrngDeterminism == [](AleaLiterals /\ AleaOutputs) /\ AleaStep

\* C12 witness: both generators built from ["asdf"] have returned five values
C12_Witness ==
    /\ seeds = <<Asdf>>
    /\ \A i \in Gens : Len(outs[i]) = Len(AsdfRandoms) /\ gens[i].tag = "Ok"

\* whether the bag now held is as fresh_bag generated it
AsGenerated == built /\ calls > 0 /\ ~swapped

\* C13 as stated: get() dispenses a fresh bag in the reverse of the removal
\* order: the piece removed by the last draw is dispensed first, the piece
\* removed by the first draw last.
C13_DispensedReversed ==
    AsGenerated => gotDraw = 7 - ((calls - 1) % 7)

\* C13 as amended: get() dispenses a fresh bag in the removal order: the
\* piece removed by the first draw is dispensed first, the piece removed by
\* the last draw last (the array is reversed and then popped from its end).
C13_DispensedInRemovalOrder ==
    AsGenerated =>
        /\ gotDraw = ((calls - 1) % 7) + 1
        /\ \A k \in 1..Len(removal) : (removal[k] = "-") <=> (k <= gotDraw)
        /\ bag = Collect(SubSeq(removal, gotDraw + 1, Len(removal)))

\* C13 witness: the first piece of a refill was returned, and it is the piece
\* of the first draw
C13_Witness == AsGenerated /\ calls = 8 /\ gotDraw = 1 /\ Len(bag) = 6

\* the buffer and the draws after any number of get() calls: the buffer
\* holds 6 - ((n - 1) mod 7) pieces after n >= 1 calls, 7 draws were made for
\* the first bag and for each refill, every draw index is within the pool
\* left, a refill is held as generated, and the next get() can return
BagProtocol ==
    built =>
        /\ Len(bag) \in 0..7
        /\ (calls >= 1) => (Len(bag) = 6 - ((calls - 1) % 7) /\ got \in Pieces)
        /\ draws = 7 * (1 + (IF calls = 0 THEN 0 ELSE (calls - 1) \div 7))
        /\ \A len \in 1..Len(FRESH_BAG) : DrawIndexes(len) \subseteq 0..(len - 1)
        /\ (calls > 7) =>
              /\ ~swapped
              /\ \A k \in 1..Len(removal) : (removal[k] = "-") <=> (k <= gotDraw)
              /\ bag = Collect(SubSeq(removal, gotDraw + 1, Len(removal)))
        /\ (calls < MaxCalls) => ENABLED (GetPop \/ GetRefill)

\* a get() on a non-empty buffer returns its top piece and makes no draw; a
\* get() on an empty buffer makes exactly 7 draws and leaves 6 pieces
GetStep ==
    [][(built /\ calls' = calls + 1) =>
          IF bag # <<>>
          THEN draws' = draws /\ got' = bag[Len(bag)]
                   /\ bag' = SubSeq(bag, 1, Len(bag) - 1)
          ELSE draws' = draws + 7 /\ Len(bag') = 6
                   /\ Range(bag') \cup {got'} = Pieces]_vars

\* C14: after any sequence of get() calls the buffer holds 0..7 pieces; a
\* get() on a non-empty buffer removes and returns its top piece without a
\* draw; a get() on an empty buffer generates one fresh bag (exactly 7 draws,
\* each index within the remaining pool), applies no seam correction, and
\* returns its first piece, so after n >= 1 calls the buffer holds
\* 6 - ((n - 1) mod 7) pieces, and get() always returns a piece.
C14_GetProtocol == []BagProtocol /\ GetStep

\* C14 witness: a refill, then a get() on the refilled buffer
C14_Witness == built /\ calls = 9 /\ Len(bag) = 5 /\ draws = 14 /\ ~swapped

\* C15: a duration of d milliseconds, 0 <= d <= 4095, converts to the
\* timestamp d (a zero duration to timestamp 0); a negative duration is
\* rejected with Invalid.
C15_DurationInRange ==
    (dur.kind = "duration" /\ ts.tag # "None") =>
        /\ (dur.val \in 0..TimestampMax) => ts = [tag |-> "Ok", val |-> dur.val]
        /\ (dur.val < 0) => ts.tag = "Invalid"

\* the positions at which the first bag differs from the bag fresh_bag
\* generated
Corrected == { i \in 1..Len(bag) : bag[i] # Collect(removal)[i] }

\* C16: the first piece get() returns on a new JstrisBag is never S or Z, the
\* corrected first bag is a permutation of the 7 kinds, and the correction,
\* if any, is one swap of the piece dispensed first with one of the two
\* pieces dispensed after it.
C16_FirstPieceRule ==
    /\ (built /\ calls = 0) =>
          /\ Len(bag) = 7 /\ Range(bag) = Pieces
          /\ bag[7] \notin SZ
          /\ swapped <=> (Corrected # {})
          /\ swapped =>
                \E j \in {5, 6} :
                    Corrected = {j, 7} /\ bag = Swap(Collect(removal), j, 7)
    /\ (built /\ calls = 1) => got \notin SZ

\* C16 witness: fresh_bag drew S and Z first, and the first piece returned is
\* the piece of the third draw
C16_Witness == built /\ calls = 1 /\ swapped /\ gotDraw = 3 /\ got \notin SZ

\* the pairs yielded so far: one per event walked, in list order, its time
\* congruent to the raw timestamp modulo 4096 and not below the time before
YieldedInOrder ==
    iter.live =>
        /\ Len(yielded) = iter.pos /\ iter.pos <= Len(inner)
        /\ iter.base % Epoch = 0
        /\ \A i \in 1..Len(yielded) :
              /\ yielded[i][1] = inner[i].input
              /\ yielded[i][2] % Epoch = inner[i].timestamp
              /\ (i > 1) => yielded[i][2] >= yielded[i - 1][2]

\* one step of the pass: the list is not modified, the base stays or grows
\* by exactly 4096, and at most one pair is added to the pairs yielded
PassStep ==
    [][(iter.live /\ iter'.live) =>
          /\ inner' = inner
          /\ iter'.base \in {iter.base, iter.base + Epoch}
          /\ \/ yielded' = yielded /\ iter'.pos = iter.pos
             \/ /\ iter'.pos = iter.pos + 1
                /\ Len(yielded') = Len(yielded) + 1
                /\ SubSeq(yielded', 1, Len(yielded)) = yielded]_vars

\* C17: the elapsed times yielded by one pass of EventList::iter are
\* non-decreasing, each is congruent to the event's raw timestamp modulo
\* 4096, the base only grows in steps of exactly 4096, and the pass yields
\* one (input, time) pair per event in list order without modifying the list.
C17_MonotoneTime == []YieldedInOrder /\ PassStep

\* C17 witness: a pass over a list whose raw timestamps decrease twice has
\* yielded a pair for every event
C17_Witness ==
    /\ iter.live /\ Len(inner) >= 3 /\ Len(yielded) = Len(inner)
    /\ iter.base = 2 * Epoch

\* C18: serializing a version decoded from MAJOR.m writes MAJOR.m again.
C18_ReencodesActualMinor ==
    (rewire # NoNumber) =>
        rewire = [major |-> wire.major, frac |-> StripZeros(wire.frac)]

============================================================================
